---------------------------- MODULE Spec2Model ----------------------------
(***************************************************************************)
(* Session / refresh-token lifecycle (AuthService, RefreshToken schema)    *)
(* and the live-connection registry (GatewayService, AppGateway) of the    *)
(* CegidAssistantBackend.                                                  *)
(*                                                                         *)
(* Specifications of the module:                                           *)
(*   Spec         the HTTP auth operations over the refresh-token          *)
(*                collection, with the clock and the TTL purge;            *)
(*   SpecSessions the auth operations that are one step each, with user    *)
(*                deactivation;                                            *)
(*   SpecGateway  the websocket handshake / disconnect handlers and the    *)
(*                dispatch over the in-memory registry;                    *)
(*   SpecStorage  refresh and signOut with database calls that can fail;   *)
(*   SpecExpiry   signIn under each configured refresh duration;           *)
(*   SpecLong     signIn, refresh and signOut under a refresh duration     *)
(*                that lets two sign-ins of a principal overlap;           *)
(*   SpecInactive signIn and refresh while users are deactivated.          *)
(***************************************************************************)
EXTENDS Integers, Sequences, FiniteSets, TLC

(***************************************************************************)
(* Bounds of the model.  Time is counted in abstract clock ticks; one tick *)
(* is also the resolution of the iat/exp claims of a JWT (one second in    *)
(* jsonwebtoken), so two tokens signed in the same tick carry the same     *)
(* iat.                                                                    *)
(***************************************************************************)
MaxTime == 2
MaxRecords == 2
AccessTTL == 1
RefreshTTL == 1
MaxEvents == 2
MaxDuration == 2

Users == {"u1", "u2"}
Sockets == {"s1", "s2", "s3"}

None == "none"

VARIABLES
    now,              \* the wall clock (new Date(), jsonwebtoken's clock)
    isActive,         \* User.isActive per user document
    refreshTokens,    \* the RefreshToken collection, in insertion order
    nextId,           \* _id of the next RefreshToken document
    issued,           \* every {accessToken, refreshToken} pair signIn returned
    killed,           \* refresh tokens issued to P before a signOutAll(P)
    req,              \* the refresh / signOut request in flight, if any
    last,             \* the return value of the last step, if it was a one-step operation
    userConnections,  \* GatewayService.userConnections : userId -> socketId
    socketToUser,     \* GatewayService.socketToUser : socketId -> userId
    clients,          \* socket.io clients: connection status and client.data
    emitted,          \* events emitted to each client by the gateway
    JWT_REFRESH_EXPIRATION  \* the configured refresh duration, if any

authVars == <<now, isActive, refreshTokens, nextId, issued, killed, req, last>>
gwVars == <<userConnections, socketToUser, clients, emitted>>
vars == <<now, isActive, refreshTokens, nextId, issued, killed, req, last,
          userConnections, socketToUser, clients, emitted,
         JWT_REFRESH_EXPIRATION>>

----------------------------------------------------------------------------
(***************************************************************************)
(* JSON web tokens.  A token is what jsonwebtoken signs: the secret it was *)
(* signed with, the subject, iat and exp.  Signing is deterministic: the   *)
(* same payload signed in the same clock tick is the same string.          *)
(***************************************************************************)
NoToken == [secret |-> None, sub |-> None, iat |-> 0, exp |-> 0]

JwtSign(secret, sub, expiresIn) ==
    [secret |-> secret, sub |-> sub, iat |-> now, exp |-> now + expiresIn]

\* (mutant) jwtService.decode in place of verify: the signature is not checked
JwtVerifyAnySecret(token, secret) ==
    now < token.exp

\* (mutant) a verify that still accepts a token at its exp
JwtVerifyInclusive(token, secret) ==
    /\ token.secret = secret
    /\ now <= token.exp

\* jwtService.verify(token, {secret}): the signature must be made with
\* `secret` and the clock must be before exp (jsonwebtoken: clock >= exp
\* is "jwt expired").
JwtVerify(token, secret) ==
    /\ token.secret = secret
    /\ now < token.exp

\* (mutant) the access token signed with the refresh secret
generateAccessTokenRefreshSecret(user) ==
    [secret |-> "JWT_REFRESH_SECRET", sub |-> user, iat |-> now,
     exp |-> now + AccessTTL]

\* (mutant) the access token signed with noTimestamp: no iat claim
generateAccessTokenNoIat(user) ==
    [secret |-> "JWT_SECRET", sub |-> user, iat |-> 0, exp |-> now + AccessTTL]

generateAccessToken(user) == JwtSign("JWT_SECRET", user, AccessTTL)

(***************************************************************************)
(* bcrypt.  bcrypt hashes only the first 72 bytes of its input.  The first *)
(* 72 characters of a HS256 JWT are the 36 characters of the fixed header, *)
(* the dot, and 35 characters of the base64url payload, i.e. the bytes     *)
(*   {"sub":"  followed by the first 18 hex digits of the subject's id.    *)
(* What a hash retains of a token is therefore its subject only; iat, exp  *)
(* and the signature lie beyond byte 72.                                   *)
(***************************************************************************)
First72(token) == token.sub

BcryptHash(token) == First72(token)

BcryptCompare(token, hash) == First72(token) = hash

----------------------------------------------------------------------------
(***************************************************************************)
(* The RefreshToken collection.                                            *)
(***************************************************************************)
NoDoc == [_id |-> 0, token |-> None, userId |-> None, expiresAt |-> 0,
          isRevoked |-> FALSE]

\* (mutant) a schema whose isRevoked defaults to true
NewRefreshTokenDocRevoked(id, token, userId, expiresAt) ==
    [_id |-> id, token |-> BcryptHash(token), userId |-> userId,
     expiresAt |-> expiresAt, isRevoked |-> TRUE]

\* new this.refreshTokenModel({token, userId, expiresAt}) followed by save():
\* the pre-save hook replaces the plaintext by its bcrypt hash; isRevoked
\* defaults to false.
NewRefreshTokenDoc(id, token, userId, expiresAt) ==
    [_id |-> id, token |-> BcryptHash(token), userId |-> userId,
     expiresAt |-> expiresAt, isRevoked |-> FALSE]

\* refreshTokenModel.find({ userId }).select('+token').exec()
FindByUser(coll, userId) ==
    LET Keep(d) == d.userId = userId IN SelectSeq(coll, Keep)

\* the for-loop over storedTokens: the first document whose hash matches
RECURSIVE FirstMatch(_, _)
FirstMatch(storedTokens, token) ==
    IF storedTokens = <<>> THEN NoDoc
    ELSE IF BcryptCompare(token, Head(storedTokens).token)
         THEN Head(storedTokens)
         ELSE FirstMatch(Tail(storedTokens), token)

DocIds(coll) == {coll[i]._id : i \in 1..Len(coll)}

\* (mutant) `storedToken.isRevoked = !storedToken.isRevoked`
SaveRevokedToggle(coll, id) ==
    [i \in 1..Len(coll) |->
        IF coll[i]._id = id
        THEN [coll[i] EXCEPT !.isRevoked = ~coll[i].isRevoked]
        ELSE coll[i]]

\* storedToken.save() after `storedToken.isRevoked = true`: only the modified
\* path is written, as updateOne({_id}, {$set: {isRevoked: true}}).
SaveRevoked(coll, id) ==
    [i \in 1..Len(coll) |->
        IF coll[i]._id = id THEN [coll[i] EXCEPT !.isRevoked = TRUE]
        ELSE coll[i]]

\* (mutant) updateOne instead of updateMany: only the first match is revoked
UpdateManyRevokeOne(coll, userId) ==
    LET hits == {i \in 1..Len(coll) :
                    coll[i].userId = userId /\ coll[i].isRevoked = FALSE}
    IN [i \in 1..Len(coll) |->
           IF i \in hits /\ \A j \in hits : i <= j
           THEN [coll[i] EXCEPT !.isRevoked = TRUE]
           ELSE coll[i]]

\* (mutant) the filter without userId: {isRevoked: false}
UpdateManyRevokeAnyUser(coll, userId) ==
    [i \in 1..Len(coll) |-> [coll[i] EXCEPT !.isRevoked = TRUE]]

\* refreshTokenModel.updateMany({userId, isRevoked: false}, {isRevoked: true})
UpdateManyRevoke(coll, userId) ==
    [i \in 1..Len(coll) |->
        IF coll[i].userId = userId /\ coll[i].isRevoked = FALSE
        THEN [coll[i] EXCEPT !.isRevoked = TRUE]
        ELSE coll[i]]

\* the collection without its i-th document
RemoveAt(coll, i) ==
    [j \in 1..(Len(coll) - 1) |-> IF j < i THEN coll[j] ELSE coll[j + 1]]

----------------------------------------------------------------------------
(***************************************************************************)
(* Requests.  refresh and signOut await the database between their steps,  *)
(* so the request in flight has a position (pc) and the document it has    *)
(* already read; signIn and signOutAll are one step each (signOutAll is a  *)
(* single updateMany).                                                     *)
(***************************************************************************)
Idle ==
    [pc |-> "idle", op |-> None, token |-> NoToken, validToken |-> NoDoc,
     result |-> None, accessToken |-> NoToken, revoked |-> FALSE,
     prev |-> NoToken, wasSignedOut |-> FALSE, wasKilled |-> FALSE]

Response(op, sub, result) == [op |-> op, sub |-> sub, result |-> result]

NoLast == Response(None, None, None)

\* a token nobody signed with either secret
Forged == [secret |-> "forged", sub |-> "u1", iat |-> 0, exp |-> MaxTime + 1]

\* what a client can put in a request body: the tokens it was given, or junk
Presentable == {i.refreshToken : i \in issued} \cup {Forged}

\* ---- the configured refresh duration ----
\* A duration string "<n><unit>" is the record [n, unit]; durations are
\* scaled so that one day is one clock tick.
Unset == [n |-> 0, unit |-> "unset"]

\* configService.get('JWT_REFRESH_EXPIRATION') || '7d'; the default counts
\* RefreshTTL days in the model
expiresIn ==
    IF JWT_REFRESH_EXPIRATION = Unset
    THEN [n |-> RefreshTTL, unit |-> "d"]
    ELSE JWT_REFRESH_EXPIRATION

\* jsonwebtoken's timespan of a string (the ms package): n days for
\* "<n>d", 7n days for "<n>w"
Ms(e) == IF e.unit = "w" THEN 7 * e.n ELSE e.n

\* expiresIn.replace('d', ''): drops the first 'd' of the string
Replace_d(e) == IF e.unit = "d" THEN [e EXCEPT !.unit = ""] ELSE e

\* parseInt: the leading digits of the string, whatever follows them
ParseInt(e) == e.n

\* the durations an operator can configure in the model
Expirations ==
    {[n |-> n, unit |-> u] : n \in 1..MaxDuration, u \in {"d", "w"}}

\* the state after construction, but for the configuration
InitData ==
    /\ now = 0
    /\ isActive = [u \in Users |-> TRUE]
    /\ refreshTokens = <<>>
    /\ nextId = 1
    /\ issued = {}
    /\ killed = {}
    /\ req = Idle
    /\ last = NoLast
    /\ userConnections = [u \in Users |-> None]
    /\ socketToUser = [s \in Sockets |-> None]
    /\ clients = [s \in Sockets |-> [status |-> "new", userId |-> None]]
    /\ emitted = [s \in Sockets |-> <<>>]

\* JWT_REFRESH_EXPIRATION is not set: the default applies
Init == InitData /\ JWT_REFRESH_EXPIRATION = Unset

\* JWT_REFRESH_EXPIRATION is set to one of the durations
InitExpiry == InitData /\ JWT_REFRESH_EXPIRATION \in Expirations

Tick ==
    /\ now < MaxTime
    /\ now' = now + 1
    /\ last' = NoLast
    /\ UNCHANGED <<isActive, refreshTokens, nextId, issued, killed, req>>
    /\ UNCHANGED gwVars
    /\ UNCHANGED JWT_REFRESH_EXPIRATION

\* The TTL index {expiresAt: 1}, expireAfterSeconds 0: the server's TTL
\* monitor deletes a document some time after its expiresAt has passed.
purge ==
    /\ \E i \in 1..Len(refreshTokens) :
          /\ refreshTokens[i].expiresAt < now
          /\ refreshTokens' = RemoveAt(refreshTokens, i)
    /\ last' = NoLast
    /\ UNCHANGED <<now, isActive, nextId, issued, killed, req>>
    /\ UNCHANGED gwVars
    /\ UNCHANGED JWT_REFRESH_EXPIRATION

\* UsersService.remove: soft delete
remove ==
    /\ \E u \in Users :
          /\ isActive[u]
          /\ isActive' = [isActive EXCEPT ![u] = FALSE]
    /\ last' = NoLast
    /\ UNCHANGED <<now, refreshTokens, nextId, issued, killed, req>>
    /\ UNCHANGED gwVars
    /\ UNCHANGED JWT_REFRESH_EXPIRATION

\* AuthService.generateRefreshToken: the signed token ...
generateRefreshToken(user) ==
    JwtSign("JWT_REFRESH_SECRET", user, Ms(expiresIn))

\* ... and the expiresAt of the document it stores:
\*   days = parseInt(expiresIn.replace('d', ''));  setDate(getDate() + days)
days == ParseInt(Replace_d(expiresIn))
RefreshExpiresAt == now + days

\* (mutant) a signIn that issues the tokens before it looks at the result of
\* findByEmail / comparePassword
signInUnchecked(email, passwordValid) ==
    /\ email \in Users
    /\ nextId <= MaxRecords
    /\ LET accessToken == generateAccessToken(email)
           refreshToken == generateRefreshToken(email)
       IN /\ refreshTokens' = Append(refreshTokens,
                 NewRefreshTokenDoc(nextId, refreshToken, email,
                                    RefreshExpiresAt))
          /\ issued' = issued \cup
                 {[accessToken |-> accessToken,
                   refreshToken |-> refreshToken]}
    /\ nextId' = nextId + 1
    /\ last' = Response("signIn", email, "ok")
    /\ UNCHANGED <<now, isActive, killed, req>>
    /\ UNCHANGED gwVars
    /\ UNCHANGED JWT_REFRESH_EXPIRATION

\* AuthService.signIn({email, password}); passwordValid is what
\* user.comparePassword(password) returns
signInWith(email, passwordValid) ==
    /\ LET found == email \in Users /\ isActive[email] IN
       IF ~found \/ ~passwordValid
       THEN /\ last' = Response("signIn", None, "InvalidCredentials")
            /\ UNCHANGED <<refreshTokens, nextId, issued>>
       ELSE /\ nextId <= MaxRecords
            /\ LET accessToken == generateAccessToken(email)
                   refreshToken == generateRefreshToken(email)
               IN /\ refreshTokens' = Append(refreshTokens,
                         NewRefreshTokenDoc(nextId, refreshToken, email,
                                            RefreshExpiresAt))
                  /\ issued' = issued \cup
                         {[accessToken |-> accessToken,
                           refreshToken |-> refreshToken]}
            /\ nextId' = nextId + 1
            /\ last' = Response("signIn", email, "ok")
    /\ UNCHANGED <<now, isActive, killed, req>>
    /\ UNCHANGED gwVars
    /\ UNCHANGED JWT_REFRESH_EXPIRATION

\* what a client can send as email: a registered address or an unknown one
Emails == Users \cup {"nobody"}

\* POST /auth/signin
signIn ==
    \E email \in Emails, passwordValid \in BOOLEAN :
        signInWith(email, passwordValid)

\* A request may start when the slot holds no request in flight.  The new
\* request remembers what the previous response of the slot says about its
\* token: the access token of a successful refresh with the same token
\* (prev), or that it was a signOut of the same token that set isRevoked
\* on a document (wasSignedOut); and whether a signOutAll has killed the
\* token (wasKilled).
CanStart == req.pc \in {"idle", "done"}

NewRequest(op, token) ==
    [Idle EXCEPT !.op = op, !.token = token,
                 !.prev = IF /\ op = "refresh"
                             /\ req.op = "refresh"
                             /\ req.result = "ok"
                             /\ req.token = token
                          THEN req.accessToken ELSE NoToken,
                 !.wasSignedOut = /\ req.op = "signOut"
                                  /\ req.revoked
                                  /\ req.token = token,
                 !.wasKilled = token \in killed]

\* the request returns: the slot keeps the response until the next request
Return(r, result, accessToken) ==
    [r EXCEPT !.pc = "done", !.validToken = NoDoc, !.result = result,
              !.accessToken = accessToken]

\* the catch block of refresh / signOut: every error becomes
\* UnauthorizedException('Invalid refresh token')
InvalidToken(r) == Return(r, "InvalidToken", NoToken)

\* AuthService.refresh, up to the end of the await on find(): verify the
\* JWT with the refresh secret, read the subject's documents, and pick the
\* first one bcrypt.compare accepts.
refreshFindWith(token) ==
    /\ CanStart
    /\ LET r == NewRequest("refresh", token) IN
       req' = IF ~JwtVerify(token, "JWT_REFRESH_SECRET")
              THEN InvalidToken(r)
              ELSE [r EXCEPT !.pc = "check",
                       !.validToken =
                          FirstMatch(FindByUser(refreshTokens, token.sub),
                                     token)]
    /\ last' = NoLast
    /\ UNCHANGED <<now, isActive, refreshTokens, nextId, issued, killed>>
    /\ UNCHANGED gwVars
    /\ UNCHANGED JWT_REFRESH_EXPIRATION

\* POST /auth/refresh
refreshFind == \E token \in Presentable : refreshFindWith(token)

\* `validToken.isRevoked || new Date() > validToken.expiresAt`
RejectsDoc(validToken) ==
    validToken.isRevoked \/ now > validToken.expiresAt

\* (mutant) the checks without the catch block around them: the inner
\* exceptions reach the caller
refreshCheckUncaught ==
    /\ req.pc = "check"
    /\ req' = IF req.validToken = NoDoc
              THEN Return(req, "NoMatchingToken", NoToken)
              ELSE IF RejectsDoc(req.validToken)
              THEN Return(req, "ExpiredOrRevoked", NoToken)
              ELSE [req EXCEPT !.pc = "user"]
    /\ last' = NoLast
    /\ UNCHANGED <<now, isActive, refreshTokens, nextId, issued, killed>>
    /\ UNCHANGED gwVars
    /\ UNCHANGED JWT_REFRESH_EXPIRATION

\* AuthService.refresh: the checks on the document that was found
refreshCheck ==
    /\ req.pc = "check"
    /\ req' = IF req.validToken = NoDoc \/ RejectsDoc(req.validToken)
              THEN InvalidToken(req)
              ELSE [req EXCEPT !.pc = "user"]
    /\ last' = NoLast
    /\ UNCHANGED <<now, isActive, refreshTokens, nextId, issued, killed>>
    /\ UNCHANGED gwVars
    /\ UNCHANGED JWT_REFRESH_EXPIRATION

\* (mutant) a refresh that reads its document again before it answers
refreshUserRechecks ==
    /\ req.pc = "user"
    /\ req' = IF \/ ~isActive[req.token.sub]
                 \/ \E i \in 1..Len(refreshTokens) :
                       /\ refreshTokens[i]._id = req.validToken._id
                       /\ refreshTokens[i].isRevoked
              THEN InvalidToken(req)
              ELSE Return(req, "ok", generateAccessToken(req.token.sub))
    /\ last' = NoLast
    /\ UNCHANGED <<now, isActive, refreshTokens, nextId, issued, killed>>
    /\ UNCHANGED gwVars
    /\ UNCHANGED JWT_REFRESH_EXPIRATION

\* (mutant) a rotating refresh: the accepted document is revoked on use
refreshUserRotating ==
    /\ req.pc = "user"
    /\ req' = IF ~isActive[req.token.sub] THEN InvalidToken(req)
              ELSE Return(req, "ok", generateAccessToken(req.token.sub))
    /\ refreshTokens' = IF isActive[req.token.sub]
                        THEN SaveRevoked(refreshTokens, req.validToken._id)
                        ELSE refreshTokens
    /\ last' = NoLast
    /\ UNCHANGED <<now, isActive, nextId, issued, killed>>
    /\ UNCHANGED gwVars
    /\ UNCHANGED JWT_REFRESH_EXPIRATION

\* (mutant) a refresh whose user lookup does not look at isActive
refreshUserAnyUser ==
    /\ req.pc = "user"
    /\ req' = Return(req, "ok", generateAccessToken(req.token.sub))
    /\ last' = NoLast
    /\ UNCHANGED <<now, isActive, refreshTokens, nextId, issued, killed>>
    /\ UNCHANGED gwVars
    /\ UNCHANGED JWT_REFRESH_EXPIRATION

\* AuthService.refresh: usersService.findOne (throws for a missing or
\* inactive user, which the catch turns into 'Invalid refresh token'), then
\* the new access token
refreshUser ==
    /\ req.pc = "user"
    /\ req' = IF ~isActive[req.token.sub] THEN InvalidToken(req)
              ELSE Return(req, "ok", generateAccessToken(req.token.sub))
    /\ last' = NoLast
    /\ UNCHANGED <<now, isActive, refreshTokens, nextId, issued, killed>>
    /\ UNCHANGED gwVars
    /\ UNCHANGED JWT_REFRESH_EXPIRATION

\* AuthService.signOut, up to the match in the for-loop.  Without a match
\* nothing else touches the database and the acknowledgment is returned.
signOutFindWith(token) ==
    /\ CanStart
    /\ LET r == NewRequest("signOut", token)
           match == FirstMatch(FindByUser(refreshTokens, token.sub), token)
       IN req' = IF ~JwtVerify(token, "JWT_REFRESH_SECRET")
                 THEN InvalidToken(r)
                 ELSE IF match = NoDoc
                      THEN Return(r, "ok", NoToken)
                      ELSE [r EXCEPT !.pc = "save", !.validToken = match]
    /\ last' = NoLast
    /\ UNCHANGED <<now, isActive, refreshTokens, nextId, issued, killed>>
    /\ UNCHANGED gwVars
    /\ UNCHANGED JWT_REFRESH_EXPIRATION

\* POST /auth/signout
signOutFind == \E token \in Presentable : signOutFindWith(token)

\* (mutant) a signOut that rejects a document that is already revoked
signOutSaveChecked ==
    /\ req.pc = "save"
    /\ IF /\ req.validToken._id \in DocIds(refreshTokens)
          /\ ~req.validToken.isRevoked
       THEN /\ refreshTokens' = SaveRevoked(refreshTokens, req.validToken._id)
            /\ req' = [Return(req, "ok", NoToken) EXCEPT !.revoked = TRUE]
       ELSE /\ req' = InvalidToken(req)
            /\ UNCHANGED refreshTokens
    /\ last' = NoLast
    /\ UNCHANGED <<now, isActive, nextId, issued, killed>>
    /\ UNCHANGED gwVars
    /\ UNCHANGED JWT_REFRESH_EXPIRATION

\* AuthService.signOut: `storedToken.isRevoked = true; await
\* storedToken.save()`.  save() of a document the TTL monitor has deleted in
\* the meantime matches nothing and rejects (DocumentNotFoundError); the
\* catch turns every error into 'Invalid refresh token'.
signOutSave ==
    /\ req.pc = "save"
    /\ IF req.validToken._id \in DocIds(refreshTokens)
       THEN /\ refreshTokens' = SaveRevoked(refreshTokens, req.validToken._id)
            /\ req' = [Return(req, "ok", NoToken) EXCEPT !.revoked = TRUE]
       ELSE /\ req' = InvalidToken(req)
            /\ UNCHANGED refreshTokens
    /\ last' = NoLast
    /\ UNCHANGED <<now, isActive, nextId, issued, killed>>
    /\ UNCHANGED gwVars
    /\ UNCHANGED JWT_REFRESH_EXPIRATION

\* POST /auth/signout-all: the jwt-refresh guard verifies the signature and
\* the expiry of body.refreshToken (JwtRefreshStrategy), then
\* AuthService.signOutAll(payload.sub) runs one updateMany.
signOutAll ==
    /\ \E token \in Presentable :
          IF ~JwtVerify(token, "JWT_REFRESH_SECRET")
          THEN /\ last' = Response("signOutAll", None, "Unauthorized")
               /\ UNCHANGED <<refreshTokens, killed>>
          ELSE /\ refreshTokens' = UpdateManyRevoke(refreshTokens, token.sub)
               /\ killed' = killed \cup
                      {i.refreshToken : i \in {j \in issued :
                                          j.refreshToken.sub = token.sub}}
               /\ last' = Response("signOutAll", token.sub, "ok")
    /\ UNCHANGED <<now, isActive, nextId, issued, req>>
    /\ UNCHANGED gwVars
    /\ UNCHANGED JWT_REFRESH_EXPIRATION

Next ==
    \/ Tick
    \/ purge
    \/ signIn
    \/ refreshFind
    \/ refreshCheck
    \/ refreshUser
    \/ signOutFind
    \/ signOutSave
    \/ signOutAll

Spec == Init /\ [][Next]_vars

\* the same, with users being deactivated
NextUsers == Next \/ remove

SpecUsers == Init /\ [][NextUsers]_vars

\* the operations that are one step each, with users being deactivated
NextSessions == Tick \/ purge \/ remove \/ signIn \/ signOutAll

SpecSessions == Init /\ [][NextSessions]_vars

\* The database rejects the find() of a refresh whose token has passed the
\* JWT check: the rejection is thrown inside the try block.
refreshFindFails ==
    /\ CanStart
    /\ \E token \in Presentable :
          /\ JwtVerify(token, "JWT_REFRESH_SECRET")
          /\ req' = InvalidToken(NewRequest("refresh", token))
    /\ last' = NoLast
    /\ UNCHANGED <<now, isActive, refreshTokens, nextId, issued, killed>>
    /\ UNCHANGED gwVars
    /\ UNCHANGED JWT_REFRESH_EXPIRATION

\* The database rejects the find() of a signOut.
signOutFindFails ==
    /\ CanStart
    /\ \E token \in Presentable :
          /\ JwtVerify(token, "JWT_REFRESH_SECRET")
          /\ req' = InvalidToken(NewRequest("signOut", token))
    /\ last' = NoLast
    /\ UNCHANGED <<now, isActive, refreshTokens, nextId, issued, killed>>
    /\ UNCHANGED gwVars
    /\ UNCHANGED JWT_REFRESH_EXPIRATION

\* The database rejects the save() of a signOut: nothing is written.
signOutSaveFails ==
    /\ req.pc = "save"
    /\ req' = InvalidToken(req)
    /\ last' = NoLast
    /\ UNCHANGED <<now, isActive, refreshTokens, nextId, issued, killed>>
    /\ UNCHANGED gwVars
    /\ UNCHANGED JWT_REFRESH_EXPIRATION

\* refresh and signOut over a database whose calls can fail
NextStorage ==
    \/ Tick
    \/ signIn
    \/ refreshFind
    \/ refreshFindFails
    \/ refreshCheck
    \/ refreshUser
    \/ signOutFind
    \/ signOutFindFails
    \/ signOutSave
    \/ signOutSaveFails

SpecStorage == Init /\ [][NextStorage]_vars

\* JWT_REFRESH_EXPIRATION is set to MaxDuration days, so that a principal
\* can hold refresh tokens of several sign-ins at a time
InitLong ==
    InitData /\ JWT_REFRESH_EXPIRATION = [n |-> MaxDuration, unit |-> "d"]

NextLong ==
    \/ Tick
    \/ signIn
    \/ refreshFind
    \/ refreshCheck
    \/ refreshUser
    \/ signOutFind
    \/ signOutSave

SpecLong == InitLong /\ [][NextLong]_vars

\* sign-in and refresh while users are being deactivated
NextInactive ==
    \/ Tick
    \/ remove
    \/ signIn
    \/ refreshFind
    \/ refreshCheck
    \/ refreshUser

SpecInactive == Init /\ [][NextInactive]_vars

\* sessions under a configured refresh duration
NextExpiry == Tick \/ purge \/ signIn
SpecExpiry == InitExpiry /\ [][NextExpiry]_vars

----------------------------------------------------------------------------
(***************************************************************************)
(* The connection registry (GatewayService) and the websocket handlers     *)
(* (AppGateway).  handleConnection has no await: each handler is one step. *)
(***************************************************************************)

\* (mutant) a removeConnection that forgets the forward entry
removeConnectionReverseOnly(socketId) ==
    /\ socketToUser' = [socketToUser EXCEPT ![socketId] = None]
    /\ UNCHANGED userConnections

\* (mutant) a removeConnection that acts only for the connection the
\* forward map holds for the user
removeConnectionIfCurrent(socketId) ==
    LET userId == socketToUser[socketId] IN
    IF userId # None /\ userConnections[userId] = socketId
    THEN /\ userConnections' = [userConnections EXCEPT ![userId] = None]
         /\ socketToUser' = [socketToUser EXCEPT ![socketId] = None]
    ELSE UNCHANGED <<userConnections, socketToUser>>

\* (mutant) a removeConnection that empties the forward map when the
\* socket has no reverse entry
removeConnectionClearsUnknown(socketId) ==
    LET userId == socketToUser[socketId] IN
    IF userId # None
    THEN /\ userConnections' = [userConnections EXCEPT ![userId] = None]
         /\ socketToUser' = [socketToUser EXCEPT ![socketId] = None]
    ELSE /\ userConnections' = [u \in Users |-> None]
         /\ UNCHANGED socketToUser

\* GatewayService.removeConnection
removeConnection(socketId) ==
    LET userId == socketToUser[socketId] IN
    IF userId # None
    THEN /\ userConnections' = [userConnections EXCEPT ![userId] = None]
         /\ socketToUser' = [socketToUser EXCEPT ![socketId] = None]
    ELSE UNCHANGED <<userConnections, socketToUser>>

\* (mutant) an addConnection that keeps the user's first connection
addConnectionKeepFirst(userId, socketId) ==
    /\ userConnections' = IF userConnections[userId] = None
                          THEN [userConnections EXCEPT ![userId] = socketId]
                          ELSE userConnections
    /\ socketToUser' = [socketToUser EXCEPT ![socketId] = userId]

\* GatewayService.addConnection
addConnection(userId, socketId) ==
    /\ userConnections' = [userConnections EXCEPT ![userId] = socketId]
    /\ socketToUser' = [socketToUser EXCEPT ![socketId] = userId]

\* GatewayService.getSocketId
getSocketId(userId) == userConnections[userId]

\* GatewayService.isUserConnected
isUserConnected(userId) == userConnections[userId] # None

\* GatewayService.getConnectedUsers
getConnectedUsers == {u \in Users : userConnections[u] # None}

\* (mutant) the count taken from the reverse map: this.socketToUser.size
getConnectionCountReverse ==
    Cardinality({s \in Sockets : socketToUser[s] # None})

\* GatewayService.getConnectionCount
getConnectionCount == Cardinality({u \in Users : userConnections[u] # None})

\* what a connecting client can send as handshake token: nothing, junk, or
\* a token signed with either secret for some user at some earlier time
HandshakeTokens ==
    {NoToken, Forged} \cup
    {[secret |-> "JWT_SECRET", sub |-> u, iat |-> t, exp |-> t + AccessTTL] :
        u \in Users, t \in 0..now} \cup
    {[secret |-> "JWT_REFRESH_SECRET", sub |-> u, iat |-> t,
      exp |-> t + RefreshTTL] : u \in Users, t \in 0..now}

Emit(socketId, event) ==
    emitted' = [emitted EXCEPT ![socketId] = Append(@, event)]

\* (mutant) a handshake that also consults the refresh-token collection and
\* refuses a principal that has a revoked document
handleConnectionChecksRevocation(socketId, token) ==
    /\ clients[socketId].status = "new"
    /\ IF token = NoToken
       THEN /\ clients' = [clients EXCEPT ![socketId].status = "rejected"]
            /\ UNCHANGED <<userConnections, socketToUser, emitted>>
       ELSE IF /\ JwtVerify(token, "JWT_SECRET")
               /\ \A k \in 1..Len(refreshTokens) :
                     refreshTokens[k].userId = token.sub
                        => ~refreshTokens[k].isRevoked
       THEN LET userId == token.sub IN
            /\ addConnection(userId, socketId)
            /\ clients' = [clients EXCEPT ![socketId] =
                              [status |-> "open", userId |-> userId]]
            /\ Emit(socketId, [event |-> "connected", userId |-> userId,
                               socketId |-> socketId])
       ELSE /\ clients' = [clients EXCEPT ![socketId].status = "rejected"]
            /\ Emit(socketId, [event |-> "error", userId |-> None,
                               socketId |-> None])
            /\ UNCHANGED <<userConnections, socketToUser>>
    /\ last' = NoLast
    /\ UNCHANGED <<now, isActive, refreshTokens, nextId, issued, killed, req>>
    /\ UNCHANGED JWT_REFRESH_EXPIRATION

\* AppGateway.handleConnection for a client whose handshake carries `token`
handleConnectionWith(socketId, token) ==
    /\ clients[socketId].status = "new"
    /\ IF token = NoToken
       THEN \* no token: client.disconnect()
            /\ clients' = [clients EXCEPT ![socketId].status = "rejected"]
            /\ UNCHANGED <<userConnections, socketToUser, emitted>>
       ELSE IF JwtVerify(token, "JWT_SECRET")
       THEN LET userId == token.sub IN
            /\ addConnection(userId, socketId)
            /\ clients' = [clients EXCEPT ![socketId] =
                              [status |-> "open", userId |-> userId]]
            /\ Emit(socketId, [event |-> "connected", userId |-> userId,
                               socketId |-> socketId])
       ELSE \* verify threw: emit 'error', client.disconnect()
            /\ clients' = [clients EXCEPT ![socketId].status = "rejected"]
            /\ Emit(socketId, [event |-> "error", userId |-> None,
                               socketId |-> None])
            /\ UNCHANGED <<userConnections, socketToUser>>
    /\ last' = NoLast
    /\ UNCHANGED <<now, isActive, refreshTokens, nextId, issued, killed, req>>
    /\ UNCHANGED JWT_REFRESH_EXPIRATION

\* the connection event of a socket.io client
handleConnection(socketId) ==
    \E token \in HandshakeTokens : handleConnectionWith(socketId, token)

\* (mutant) a handleDisconnect that does not call removeConnection
handleDisconnectNoCleanup(socketId) ==
    /\ clients[socketId].status \in {"open", "rejected"}
    /\ clients' = [clients EXCEPT ![socketId].status = "closed"]
    /\ UNCHANGED <<userConnections, socketToUser, emitted>>
    /\ last' = NoLast
    /\ UNCHANGED <<now, isActive, refreshTokens, nextId, issued, killed, req>>
    /\ UNCHANGED JWT_REFRESH_EXPIRATION

\* AppGateway.handleDisconnect: the close event of a connection, whether the
\* client went away or the gateway disconnected it
handleDisconnect(socketId) ==
    /\ clients[socketId].status \in {"open", "rejected"}
    /\ removeConnection(socketId)
    /\ clients' = [clients EXCEPT ![socketId].status = "closed"]
    /\ UNCHANGED emitted
    /\ last' = NoLast
    /\ UNCHANGED <<now, isActive, refreshTokens, nextId, issued, killed, req>>
    /\ UNCHANGED JWT_REFRESH_EXPIRATION

\* (mutant) a send without the `if (!socketId)` check
sendMessageToUserUnchecked(userId) ==
    LET socketId == getSocketId(userId) IN
    /\ \A s \in Sockets : Len(emitted[s]) < MaxEvents
    /\ emitted' = [s \in Sockets |->
          IF (s = socketId \/ socketId = None) /\ clients[s].status = "open"
          THEN Append(emitted[s], [event |-> "message", userId |-> userId,
                                   socketId |-> socketId])
          ELSE emitted[s]]
    /\ last' = Response("sendMessageToUser", userId, "true")
    /\ UNCHANGED <<userConnections, socketToUser, clients>>
    /\ UNCHANGED <<now, isActive, refreshTokens, nextId, issued, killed, req>>
    /\ UNCHANGED JWT_REFRESH_EXPIRATION

\* (mutant) a send that broadcasts: this.server.emit(event, data)
sendMessageToUserBroadcast(userId) ==
    LET socketId == getSocketId(userId) IN
    /\ IF socketId = None
       THEN /\ last' = Response("sendMessageToUser", userId, "false")
            /\ UNCHANGED emitted
       ELSE /\ \A s \in Sockets : Len(emitted[s]) < MaxEvents
            /\ emitted' = [s \in Sockets |->
                  IF clients[s].status = "open"
                  THEN Append(emitted[s], [event |-> "message",
                                           userId |-> userId,
                                           socketId |-> socketId])
                  ELSE emitted[s]]
            /\ last' = Response("sendMessageToUser", userId, "true")
    /\ UNCHANGED <<userConnections, socketToUser, clients>>
    /\ UNCHANGED <<now, isActive, refreshTokens, nextId, issued, killed, req>>
    /\ UNCHANGED JWT_REFRESH_EXPIRATION

\* AppGateway.sendMessageToUser(userId, event, data), as called by
\* GatewayController.sendMessage.  server.to(socketId).emit delivers to the
\* connected client whose id is socketId; the event records its addressee.
sendMessageToUser(userId) ==
    LET socketId == getSocketId(userId) IN
    /\ IF socketId = None
       THEN /\ last' = Response("sendMessageToUser", userId, "false")
            /\ UNCHANGED emitted
       ELSE /\ Len(emitted[socketId]) < MaxEvents
            /\ emitted' = [s \in Sockets |->
                  IF s = socketId /\ clients[s].status = "open"
                  THEN Append(emitted[s], [event |-> "message",
                                           userId |-> userId,
                                           socketId |-> socketId])
                  ELSE emitted[s]]
            /\ last' = Response("sendMessageToUser", userId, "true")
    /\ UNCHANGED <<userConnections, socketToUser, clients>>
    /\ UNCHANGED <<now, isActive, refreshTokens, nextId, issued, killed, req>>
    /\ UNCHANGED JWT_REFRESH_EXPIRATION

\* one iteration of the forEach of sendMessageToUsers: what
\* sendMessageToUser(userId, event, data) adds to the emitted events
EmitMessage(em, userId) ==
    LET socketId == getSocketId(userId) IN
    IF socketId = None THEN em
    ELSE [s \in Sockets |->
            IF s = socketId /\ clients[s].status = "open"
            THEN Append(em[s], [event |-> "message", userId |-> userId,
                                socketId |-> socketId])
            ELSE em[s]]

\* userIds.forEach((userId) => this.sendMessageToUser(userId, event, data))
RECURSIVE ForEach(_, _)
ForEach(em, userIds) ==
    IF userIds = {} THEN em
    ELSE LET userId == CHOOSE u \in userIds : TRUE
         IN ForEach(EmitMessage(em, userId), userIds \ {userId})

\* the message of the response: `Message sent to ${userIds.length} users`
MessageSentTo(userIds) ==
    IF userIds = {} THEN "Message sent to 0 users"
    ELSE IF Cardinality(userIds) = 1 THEN "Message sent to 1 users"
    ELSE "Message sent to 2 users"

\* (mutant) a send-to-many that gives up when a principal of the set is
\* offline
sendMessageToUsersAllOrNothing(userIds) ==
    /\ \A u \in userIds :
          getSocketId(u) # None => Len(emitted[getSocketId(u)]) < MaxEvents
    /\ emitted' = IF \E u \in userIds : getSocketId(u) = None
                  THEN emitted
                  ELSE ForEach(emitted, userIds)
    /\ last' = Response("sendMessageToUsers", None, MessageSentTo(userIds))
    /\ UNCHANGED <<userConnections, socketToUser, clients>>
    /\ UNCHANGED <<now, isActive, refreshTokens, nextId, issued, killed, req>>
    /\ UNCHANGED JWT_REFRESH_EXPIRATION

\* GatewayController.sendMessageToMany -> AppGateway.sendMessageToUsers:
\* the response is the same whoever is online
sendMessageToUsers(userIds) ==
    /\ \A u \in userIds :
          getSocketId(u) # None => Len(emitted[getSocketId(u)]) < MaxEvents
    /\ emitted' = ForEach(emitted, userIds)
    /\ last' = Response("sendMessageToUsers", None, MessageSentTo(userIds))
    /\ UNCHANGED <<userConnections, socketToUser, clients>>
    /\ UNCHANGED <<now, isActive, refreshTokens, nextId, issued, killed, req>>
    /\ UNCHANGED JWT_REFRESH_EXPIRATION

NextGateway ==
    \/ Tick
    \/ \E socketId \in Sockets : handleConnection(socketId)
    \/ \E socketId \in Sockets : handleDisconnect(socketId)
    \/ \E userId \in Users : sendMessageToUser(userId)
    \/ \E userIds \in SUBSET Users : sendMessageToUsers(userIds)

SpecGateway == Init /\ [][NextGateway]_vars

----------------------------------------------------------------------------
(***************************************************************************)
(* Claims about the registry, checked under SpecGateway.                   *)
(***************************************************************************)

\* the close event of connection s is processed in this step
Closes(s) == clients[s].status # "closed" /\ clients'[s].status = "closed"

\* connection s is registered for user u in this step
Registers(s, u) ==
    /\ clients[s].status = "new"
    /\ clients'[s] = [status |-> "open", userId |-> u]

\* C1: registry overwrite is safe against stale closes.  Registering a
\* connection for P makes it the one resolve(P) returns, and processing the
\* close event of a connection of P that a newer connection has superseded
\* leaves resolve(P) on the newer connection (so P stays in listConnected).
C1_StaleCloseKeepsNewer ==
    [][\A s \in Sockets, u \in Users :
          /\ Registers(s, u) => userConnections'[u] = s
          /\ ( /\ Closes(s)
               /\ clients[s].userId = u
               /\ userConnections[u] \notin {None, s} )
             => /\ userConnections'[u] = userConnections[u]
                /\ u \in {v \in Users : userConnections'[v] # None}]_vars

----------------------------------------------------------------------------
(***************************************************************************)
(* Claims about the session lifecycle, checked under Spec.                 *)
(***************************************************************************)

\* the response the slot holds is that of a completed request `op`
Done(op) == req.pc = "done" /\ req.op = op

\* C2: revocation is terminal.  A Refresh(t) that follows a SignOut(t) which
\* has set isRevoked on the document it matched fails with InvalidToken,
\* whatever else (clock, TTL purge, other sign-ins) happened in between.
C2_RevocationTerminal ==
    (Done("refresh") /\ req.wasSignedOut) => req.result = "InvalidToken"

CompletesKilledSignOut ==
    /\ req' # req
    /\ req'.pc = "done"
    /\ req'.op = "signOut"
    /\ req'.wasKilled

C5_SignOutAllFrame ==
    [][(last'.op = "signOutAll" /\ last'.result = "ok") =>
          \A q \in Users \ {last'.sub} :
              FindByUser(refreshTokens', q) = FindByUser(refreshTokens, q)]_vars

\* SignOutAll(P) has just revoked a document of P while another principal
\* holds a document that is not revoked
C5_Witness ==
    /\ last.op = "signOutAll"
    /\ last.result = "ok"
    /\ \E i, j \in 1..Len(refreshTokens) :
          /\ refreshTokens[i].userId = last.sub
          /\ refreshTokens[i].isRevoked
          /\ refreshTokens[j].userId # last.sub
          /\ ~refreshTokens[j].isRevoked

\* C6: a RefreshRecord is accepted by Refresh iff isRevoked = false and
\* now < expiresAt; a record at or past its expiresAt is never accepted.
C6_AcceptedIffValid ==
    [][(req.pc = "check" /\ req' # req /\ req.validToken # NoDoc) =>
          (req'.pc = "user" <=>
              (~req.validToken.isRevoked /\ now < req.validToken.expiresAt))]_vars

\* a step of a refresh request
RefreshStep == req' # req /\ req'.op = "refresh"

SignInAccess(t) == {i.accessToken : i \in {j \in issued : j.refreshToken = t}}

C9_RevokedMonotonic ==
    [][\A i \in 1..Len(refreshTokens), j \in 1..Len(refreshTokens') :
          (refreshTokens'[j]._id = refreshTokens[i]._id
              /\ refreshTokens[i].isRevoked)
          => refreshTokens'[j].isRevoked]_vars

\* a SignOut has raced a SignOutAll of the same principal: it read its
\* document as not revoked, and the document has been revoked since
C9_Witness ==
    /\ req.pc = "save"
    /\ ~req.validToken.isRevoked
    /\ \E i \in 1..Len(refreshTokens) :
          /\ refreshTokens[i]._id = req.validToken._id
          /\ refreshTokens[i].isRevoked

\* C10: SignOut(t) returns the success acknowledgment whenever t passes the
\* refresh-secret signature/expiry check, and fails with InvalidToken only
\* when that check fails: a signOut that has passed the check and looked up
\* its document (pc = "save") completes with the acknowledgment.
C10_SignOutAlwaysAcks ==
    [][(req.pc = "save" /\ req' # req) => req'.result = "ok"]_vars

\* user u has a stored document that Refresh would accept
HasValidRecord(u) ==
    \E i \in 1..Len(refreshTokens) :
        /\ refreshTokens[i].userId = u
        /\ ~refreshTokens[i].isRevoked
        /\ now < refreshTokens[i].expiresAt

\* C11: SignOutAll is only executed for a caller that presents a valid
\* refresh token.  The record of the presented token is one of the records
\* of its subject, so when signOutAll runs for P, P has a record that is
\* neither revoked nor expired; a request whose token has a revoked or
\* absent record is rejected.
C11_SignOutAllNeedsValidRecord ==
    [][(last'.op = "signOutAll" /\ last'.result = "ok")
          => HasValidRecord(last'.sub)]_vars

----------------------------------------------------------------------------
(***************************************************************************)
(* Claims about signIn, checked under SpecSessions.                        *)
(***************************************************************************)

\* C12: SignIn with an unknown or inactive principal, or with a wrong
\* password, fails with the single outcome InvalidCredentials, issues no
\* token and creates no RefreshRecord.
C12_SignInFailure ==
    [][\A email \in Emails, passwordValid \in BOOLEAN :
          ( /\ signInWith(email, passwordValid)
            /\ (email \notin Users \/ ~isActive[email] \/ ~passwordValid) )
          => /\ last' = Response("signIn", None, "InvalidCredentials")
             /\ refreshTokens' = refreshTokens
             /\ issued' = issued
             /\ nextId' = nextId]_vars

\* a signIn has just failed while the collection holds a record and a user
\* is inactive
C12_Witness ==
    /\ last = Response("signIn", None, "InvalidCredentials")
    /\ refreshTokens # <<>>
    /\ \E u \in Users : ~isActive[u]

\* C13: every successful SignIn of principal P adds exactly one new
\* RefreshRecord, not revoked and bound to P, and leaves every existing
\* RefreshRecord unchanged, so the records of P's earlier sessions stay as
\* they were alongside the new one.
C13_SignInAddsOneRecord ==
    [][(last'.op = "signIn" /\ last'.result = "ok") =>
          LET n == Len(refreshTokens) IN
          /\ Len(refreshTokens') = n + 1
          /\ SubSeq(refreshTokens', 1, n) = refreshTokens
          /\ refreshTokens'[n + 1].userId = last'.sub
          /\ ~refreshTokens'[n + 1].isRevoked
          /\ refreshTokens'[n + 1]._id \notin DocIds(refreshTokens)]_vars

\* a second signIn of the same principal has succeeded while the record of
\* its earlier session is stored and not revoked
C13_Witness ==
    /\ last.op = "signIn"
    /\ last.result = "ok"
    /\ Len(refreshTokens) = 2
    /\ refreshTokens[1].userId = last.sub
    /\ ~refreshTokens[1].isRevoked
    /\ refreshTokens[2].userId = last.sub

----------------------------------------------------------------------------
(***************************************************************************)
(* Claims about what the verifying operations do with the tokens signIn    *)
(* has issued, checked under SpecSessions: in each of its states every     *)
(* socket is still to connect and no refresh / signOut is in flight, so    *)
(* each of these operations can be started with each issued token.         *)
(***************************************************************************)

\* the handshake of socket s with token t registers s for user u
HandshakeAccepts(s, t, u) ==
    /\ ENABLED handleConnectionWith(s, t)
    /\ ~ENABLED ( /\ handleConnectionWith(s, t)
                  /\ ~ ( /\ clients'[s] = [status |-> "open", userId |-> u]
                         /\ userConnections'[u] = s ) )

\* the handshake of socket s with token t registers nothing and closes s
HandshakeRejects(s, t) ==
    /\ ENABLED handleConnectionWith(s, t)
    /\ ~ENABLED ( /\ handleConnectionWith(s, t)
                  /\ ~ ( /\ clients'[s].status = "rejected"
                         /\ userConnections' = userConnections
                         /\ socketToUser' = socketToUser ) )

\* Refresh(t) fails with InvalidToken at the signature/expiry check
RefreshRejects(t) ==
    /\ ENABLED refreshFindWith(t)
    /\ ~ENABLED (refreshFindWith(t) /\ req'.result # "InvalidToken")

\* SignOut(t) fails with InvalidToken at the signature/expiry check
SignOutRejects(t) ==
    /\ ENABLED signOutFindWith(t)
    /\ ~ENABLED (signOutFindWith(t) /\ req'.result # "InvalidToken")

\* C14: token binding.  An access token issued for P is accepted by the
\* realtime handshake (while unexpired) and registers the connection under
\* P, and is rejected by Refresh and SignOut; the refresh token issued with
\* it is rejected by the realtime handshake.
C14_TokenBinding ==
    \A i \in issued :
        /\ RefreshRejects(i.accessToken)
        /\ SignOutRejects(i.accessToken)
        /\ \A s \in Sockets :
              /\ now < i.accessToken.exp
                    => HandshakeAccepts(s, i.accessToken, i.refreshToken.sub)
              /\ HandshakeRejects(s, i.refreshToken)

\* signIn has issued a pair of tokens that are both unexpired
C14_Witness ==
    \E i \in issued :
        /\ now < i.accessToken.exp
        /\ now < i.refreshToken.exp

\* Refresh(t) passes the signature/expiry check and goes on to the lookup
RefreshVerifies(t) ==
    /\ ENABLED refreshFindWith(t)
    /\ ~ENABLED (refreshFindWith(t) /\ req'.pc # "check")

\* SignOut(t) passes the signature/expiry check
SignOutVerifies(t) ==
    /\ ENABLED signOutFindWith(t)
    /\ ~ENABLED (signOutFindWith(t) /\ req'.result = "InvalidToken")

\* C15: expiry monotonicity.  A token issued with expiry t passes the
\* verification at every time < t and is rejected at every time >= t:
\* Refresh and SignOut reject a refresh token at or after its exp and
\* verify it before, and the realtime handshake rejects an access token at
\* or after its exp and accepts it before.
C15_ExpiryMonotonic ==
    \A i \in issued :
        /\ IF now < i.refreshToken.exp
           THEN /\ RefreshVerifies(i.refreshToken)
                /\ SignOutVerifies(i.refreshToken)
           ELSE /\ RefreshRejects(i.refreshToken)
                /\ SignOutRejects(i.refreshToken)
        /\ \A s \in Sockets :
              IF now < i.accessToken.exp
              THEN HandshakeAccepts(s, i.accessToken, i.accessToken.sub)
              ELSE HandshakeRejects(s, i.accessToken)

\* the clock is exactly at the exp of an issued pair of tokens, while
\* another issued pair is unexpired
C15_Witness ==
    \E i, j \in issued :
        /\ now = i.refreshToken.exp
        /\ now = i.accessToken.exp
        /\ now < j.refreshToken.exp
        /\ now < j.accessToken.exp

----------------------------------------------------------------------------
(***************************************************************************)
(* Claims about the realtime handshake and the dispatch, checked under     *)
(* SpecGateway.                                                            *)
(***************************************************************************)

\* C16: the registry only ever contains authenticated connections.  An
\* entry (P, C), in either map, exists only if C is an open connection whose
\* handshake verified an access token with subject P; a handshake without a
\* token, or with a token that is not a valid access token, registers
\* nothing and closes the connection, and such a connection never has an
\* entry.
C16_RegistryAuthenticated ==
    /\ \A u \in Users, s \in Sockets :
          (userConnections[u] = s \/ socketToUser[s] = u)
              => clients[s] = [status |-> "open", userId |-> u]
    /\ \A s \in Sockets :
          /\ clients[s].status = "rejected" =>
                /\ socketToUser[s] = None
                /\ \A u \in Users : userConnections[u] # s
          /\ clients[s].status = "new" =>
                /\ HandshakeRejects(s, NoToken)
                /\ HandshakeRejects(s, Forged)
                /\ \A t \in HandshakeTokens :
                      (t.secret # "JWT_SECRET" \/ now >= t.exp)
                          => HandshakeRejects(s, t)

\* one connection is registered, another one has been rejected with an
\* error event, and a third is still to connect
C16_Witness ==
    \E s1, s2, s3 \in Sockets :
        /\ clients[s1].status = "open"
        /\ userConnections[clients[s1].userId] = s1
        /\ clients[s2].status = "rejected"
        /\ emitted[s2] # <<>>
        /\ clients[s3].status = "new"

\* C17: every realtime authentication failure, whether the token is missing
\* or fails verification, is communicated to the connection as exactly one
\* error event followed by forced disconnection.
C17_FailureEmitsOneError ==
    \A s \in Sockets :
        clients[s].status = "rejected" =>
            /\ Len(emitted[s]) = 1
            /\ emitted[s][1].event = "error"

\* the event the gateway has emitted to connection s in this step
EmittedNow(s) == emitted'[s][Len(emitted'[s])]

\* C18: on a successful handshake the connection is registered under the
\* token's subject when the connection-confirmed event is emitted, and the
\* event carries the subject and the connection that were registered:
\* resolve(subject) is the connection at the moment the client is told.
C18_RegisteredWhenConfirmed ==
    [][\A s \in Sockets :
          ( /\ Len(emitted'[s]) = Len(emitted[s]) + 1
            /\ EmittedNow(s).event = "connected" )
          => /\ EmittedNow(s).socketId = s
             /\ EmittedNow(s).userId \in Users
             /\ userConnections'[EmittedNow(s).userId] = s
             /\ socketToUser'[s] = EmittedNow(s).userId
             /\ clients'[s] = [status |-> "open",
                               userId |-> EmittedNow(s).userId]]_vars

\* a second connection of a user has been confirmed while the first one is
\* still open
C18_Witness ==
    \E s1, s2 \in Sockets :
        /\ s1 # s2
        /\ clients[s1].status = "open"
        /\ clients[s2] = clients[s1]
        /\ userConnections[clients[s2].userId] = s2
        /\ Len(emitted[s2]) = 1
        /\ emitted[s2][1].event = "connected"

\* C19: send-to-offline is non-fatal.  send(P, event, payload) for a
\* principal P with no registry entry returns false, emits nothing to any
\* connection and leaves the registry unchanged.
C19_SendToOffline ==
    [][\A userId \in Users :
          (sendMessageToUser(userId) /\ userConnections[userId] = None)
          => /\ last' = Response("sendMessageToUser", userId, "false")
             /\ emitted' = emitted
             /\ userConnections' = userConnections
             /\ socketToUser' = socketToUser
             /\ clients' = clients]_vars

\* a send to a principal without a registry entry has returned false while
\* another principal is connected
C19_Witness ==
    /\ last.op = "sendMessageToUser"
    /\ last.result = "false"
    /\ userConnections[last.sub] = None
    /\ \E u \in Users : userConnections[u] # None

\* the connections to which this step has emitted an event
Receivers == {s \in Sockets : emitted'[s] # emitted[s]}

\* C20: user isolation.  send(P, event, payload) for a registered P returns
\* true and emits the event to exactly one connection, resolve(P), which is
\* a connection that was authenticated as P; no connection authenticated as
\* another principal receives a message addressed to P.
C20_UserIsolation ==
    [][\A userId \in Users :
          (sendMessageToUser(userId) /\ userConnections[userId] # None)
          => /\ last' = Response("sendMessageToUser", userId, "true")
             /\ Receivers = {userConnections[userId]}
             /\ \A s \in Receivers :
                   /\ clients[s] = [status |-> "open", userId |-> userId]
                   /\ emitted'[s] = Append(emitted[s],
                         [event |-> "message", userId |-> userId,
                          socketId |-> s])]_vars

\* a message to a principal has been delivered while a connection of
\* another principal is open
C20_Witness ==
    /\ last.op = "sendMessageToUser"
    /\ last.result = "true"
    /\ \E s1, s2 \in Sockets :
          /\ userConnections[last.sub] = s1
          /\ Len(emitted[s1]) = 2
          /\ emitted[s1][2].event = "message"
          /\ clients[s2].status = "open"
          /\ clients[s2].userId # last.sub

\* C21: after any sequence of register and unregister operations each
\* principal has at most one connectionId, listConnected() contains exactly
\* the principals for which isConnected is true, and count() is their
\* number.
C21_OnePerPrincipal ==
    /\ \A u \in Users :
          Cardinality({s \in Sockets : getSocketId(u) = s}) <= 1
    /\ getConnectedUsers = {u \in Users : isUserConnected(u)}
    /\ getConnectionCount = Cardinality({u \in Users : isUserConnected(u)})

\* two connections of one principal are open, opened one after the other,
\* and the registry counts the principal once
C21_Witness ==
    \E s1, s2 \in Sockets :
        /\ s1 # s2
        /\ clients[s1].status = "open"
        /\ clients[s2] = clients[s1]
        /\ socketToUser[s1] = socketToUser[s2]
        /\ getConnectedUsers = {clients[s1].userId}
        /\ getConnectionCount = 1

\* C22: every connection close triggers unregister for that connection, and
\* after the close of the connection that is the current entry of P,
\* isConnected(P) is false and resolve(P) is none until P registers again.
C22_CloseUnregisters ==
    [][\A s \in Sockets, u \in Users :
          /\ Closes(s) => socketToUser'[s] = None
          /\ (Closes(s) /\ userConnections[u] = s)
                => userConnections'[u] = None
          /\ (userConnections[u] = None /\ userConnections'[u] # None)
                => \E s2 \in Sockets : Registers(s2, u)]_vars

\* the connection that was the entry of its principal has been closed and
\* the principal has no entry
C22_Witness ==
    \E s \in Sockets :
        /\ clients[s].status = "closed"
        /\ clients[s].userId # None
        /\ userConnections[clients[s].userId] = None
        /\ \A s2 \in Sockets : clients[s2].status = "open"
                                  => clients[s2].userId # clients[s].userId

----------------------------------------------------------------------------
(***************************************************************************)
(* Further claims about the session lifecycle, checked under Spec.         *)
(***************************************************************************)

\* a Refresh is in flight at position pc
RefreshAt(pc) == req.op = "refresh" /\ req.pc = pc

\* the stored document with the _id of d is revoked
RevokedInStore(d) ==
    \E i \in 1..Len(refreshTokens) :
        refreshTokens[i]._id = d._id /\ refreshTokens[i].isRevoked

StorageFails == refreshFindFails \/ signOutFindFails \/ signOutSaveFails

\* C24: a storage failure during Refresh or SignOut (the record lookup or
\* the save of the revoke flag fails) propagates to the caller as an opaque
\* failure distinct from InvalidToken.
C24_StorageFailureOpaque ==
    [][StorageFails => req'.result \notin {"InvalidToken", "ok"}]_vars

\* C25: every failure cause of Refresh (bad signature, expired token,
\* revoked record, no stored hash matching the token) yields the same single
\* InvalidToken outcome: a Refresh that has not returned an access token
\* has answered InvalidToken and nothing else.
C25_SingleFailureOutcome ==
    /\ Done("refresh") =>
          \/ req.result = "ok" /\ req.accessToken # NoToken
          \/ req.result = "InvalidToken" /\ req.accessToken = NoToken
    /\ (RefreshAt("check")
           /\ (req.validToken = NoDoc \/ RejectsDoc(req.validToken)))
          => /\ ENABLED refreshCheck
             /\ ~ENABLED (refreshCheck /\ req'.result # "InvalidToken")
    /\ CanStart => RefreshRejects(Forged)

\* a Refresh has failed on the record of its token: the token is properly
\* signed and unexpired and no SignOutAll has been called for it
C25_Witness ==
    /\ Done("refresh")
    /\ req.result = "InvalidToken"
    /\ JwtVerify(req.token, "JWT_REFRESH_SECRET")
    /\ ~req.wasKilled
    /\ req.token \notin killed

\* the session of the issued pair i has been revoked: a SignOutAll has
\* killed its refresh token, or a document of its principal carries
\* isRevoked (SignOut or SignOutAll)
SessionRevoked(i) ==
    \/ i.refreshToken \in killed
    \/ \E k \in 1..Len(refreshTokens) :
          /\ refreshTokens[k].userId = i.refreshToken.sub
          /\ refreshTokens[k].isRevoked

\* C26: access tokens are not revocable.  An access token issued before a
\* SignOut or a SignOutAll is still accepted by the realtime handshake
\* after the revocation, until its own expiry.
C26_AccessTokenSurvivesRevocation ==
    \A i \in issued :
        (SessionRevoked(i) /\ now < i.accessToken.exp)
           => \A s \in Sockets :
                 HandshakeAccepts(s, i.accessToken, i.accessToken.sub)

\* an unexpired access token whose session has been revoked by SignOutAll,
\* and one whose session has been revoked by SignOut
C26_Witness ==
    /\ \E i \in issued :
          /\ i.refreshToken \in killed
          /\ now < i.accessToken.exp
    /\ \E i \in issued :
          /\ i.refreshToken \notin killed
          /\ Done("signOut")
          /\ req.token = i.refreshToken
          /\ req.revoked
          /\ SessionRevoked(i)
          /\ now < i.accessToken.exp

\* C27: for every configured refresh duration, the expiresAt persisted in
\* the RefreshRecord equals the issuance time plus that duration, which is
\* the expiry embedded in the signed refresh token.
C27_ExpiresAtIsTokenExpiry ==
    [][\A u \in Users :
          (signInWith(u, TRUE) /\ last'.result = "ok") =>
             LET doc == refreshTokens'[Len(refreshTokens')] IN
             /\ doc.userId = u
             /\ doc.expiresAt = now + Ms(expiresIn)
             /\ \E i \in issued' :
                   /\ i.refreshToken.sub = u
                   /\ i.refreshToken.iat = now
                   /\ i.refreshToken.exp = doc.expiresAt]_vars

\* C28: send-to-many applies send-to-one independently to each principal
\* of the given set.  Every principal of the set that is registered
\* receives the event on its resolved connection, whichever other
\* principals of the set are offline, and no principal outside the set
\* receives it.
C28_SendToManyIndependent ==
    [][\A userIds \in SUBSET Users :
          sendMessageToUsers(userIds) =>
             /\ \A u \in userIds :
                   userConnections[u] # None =>
                      LET s == userConnections[u] IN
                      /\ clients[s] = [status |-> "open", userId |-> u]
                      /\ emitted'[s] = Append(emitted[s],
                            [event |-> "message", userId |-> u,
                             socketId |-> s])
             /\ \A s \in Sockets :
                   (\A u \in userIds : userConnections[u] # s)
                      => emitted'[s] = emitted[s]]_vars

\* a send to both principals has been delivered to the one that is
\* registered while the other one is offline
C28_Witness ==
    /\ last = Response("sendMessageToUsers", None, "Message sent to 2 users")
    /\ \E u \in Users : userConnections[u] = None
    /\ \E u \in Users :
          /\ userConnections[u] # None
          /\ LET em == emitted[userConnections[u]] IN
             /\ em # <<>>
             /\ em[Len(em)] = [event |-> "message", userId |-> u,
                               socketId |-> userConnections[u]]

\* the two maps of the registry after this step differ from before
RegistryChanges ==
    userConnections' # userConnections \/ socketToUser' # socketToUser

\* C29: unregister(C) for a connection C that has no reverse entry (never
\* registered because its handshake failed, or already unregistered)
\* changes neither the forward nor the reverse mapping.
C29_UnregisterUnknownIsNoOp ==
    [][\A s \in Sockets :
          socketToUser[s] = None =>
             /\ handleDisconnect(s) => ~RegistryChanges
             /\ ENABLED removeConnection(s)
             /\ ~ENABLED (removeConnection(s) /\ RegistryChanges)]_vars

\* the close of a connection whose handshake failed has been processed
\* while a principal is registered, and a connection that was registered
\* has been unregistered
C29_Witness ==
    /\ \E s \in Sockets :
          /\ clients[s] = [status |-> "closed", userId |-> None]
          /\ socketToUser[s] = None
    /\ \E s \in Sockets :
          /\ clients[s].status = "closed"
          /\ clients[s].userId # None
          /\ socketToUser[s] = None
    /\ \E u \in Users : userConnections[u] # None

\* a Refresh(t) that runs on collection coll without interleaving returns
\* an access token
CanRefresh(coll, t) ==
    /\ JwtVerify(t, "JWT_REFRESH_SECRET")
    /\ LET validToken == FirstMatch(FindByUser(coll, t.sub), t) IN
       /\ validToken # NoDoc
       /\ ~RejectsDoc(validToken)
    /\ isActive[t.sub]

\* this step is the save of a SignOut that returns the acknowledgment
SignOutSaves ==
    /\ req.op = "signOut"
    /\ req.pc = "save"
    /\ req'.pc = "done"
    /\ req'.result = "ok"

\* C30: SignOut(t) sets isRevoked on at most one RefreshRecord, the first
\* record of the token's subject whose stored hash matches t, and leaves
\* every other RefreshRecord of that principal and of all other principals
\* unchanged, so that the principal's other sessions can still Refresh.
C30_SignOutRevokesOneSession ==
    [][SignOutSaves =>
          /\ Len(refreshTokens') = Len(refreshTokens)
          /\ \A k \in 1..Len(refreshTokens) :
                IF refreshTokens[k]._id = req.validToken._id
                THEN refreshTokens'[k] =
                        [refreshTokens[k] EXCEPT !.isRevoked = TRUE]
                ELSE refreshTokens'[k] = refreshTokens[k]
          /\ req.validToken._id =
                FirstMatch(FindByUser(refreshTokens, req.token.sub),
                           req.token)._id
          /\ \A i \in issued :
                (/\ i.refreshToken # req.token
                 /\ CanRefresh(refreshTokens, i.refreshToken))
                   => CanRefresh(refreshTokens', i.refreshToken)]_vars

----------------------------------------------------------------------------
\* C31: Refresh never issues an access token for a principal that does not
\* exist or is inactive at the time of the refresh.  With a non-revoked,
\* unexpired RefreshRecord but a deactivated principal, Refresh fails and
\* changes no RefreshRecord.
C31_NoRefreshForInactive ==
    [][(RefreshStep /\ ~isActive[req'.token.sub]) =>
          /\ req'.accessToken = NoToken
          /\ req'.result # "ok"
          /\ req'.pc = "done" => req'.result = "InvalidToken"
          /\ refreshTokens' = refreshTokens]_vars

\* a Refresh of a deactivated principal has failed although the record it
\* resolves to is neither revoked nor expired and the token is unexpired
C31_Witness ==
    /\ Done("refresh")
    /\ req.result = "InvalidToken"
    /\ ~isActive[req.token.sub]
    /\ JwtVerify(req.token, "JWT_REFRESH_SECRET")
    /\ LET validToken ==
              FirstMatch(FindByUser(refreshTokens, req.token.sub), req.token)
       IN /\ validToken # NoDoc
          /\ ~validToken.isRevoked
          /\ now < validToken.expiresAt

\* C32: in every reachable state of the registry, for every principal P
\* with forward mapping P -> C the reverse mapping holds C -> P, and the
\* connection C that resolve(P) returns is still open (its close event has
\* not been processed), so send never emits to a closed connection.
C32_ForwardHasReverseAndIsOpen ==
    /\ \A u \in Users :
          isUserConnected(u) =>
             /\ socketToUser[getSocketId(u)] = u
             /\ clients[getSocketId(u)] = [status |-> "open", userId |-> u]
    /\ \A s \in Sockets :
          clients[s].status = "closed" =>
             ~ENABLED (/\ \E u \in Users : sendMessageToUser(u)
                       /\ emitted'[s] # emitted[s])

\* a principal is registered while a connection of the same principal has
\* been closed, and another connection has been closed too
C32_Witness ==
    \E u \in Users, s \in Sockets :
        /\ userConnections[u] # None
        /\ s # userConnections[u]
        /\ clients[s] = [status |-> "closed", userId |-> u]
        /\ Len(emitted[userConnections[u]]) < MaxEvents

\* C33: no registry entry leaks.  Once the close event of every connection
\* that was ever registered has been processed, both the forward and the
\* reverse mapping are empty and count() is 0, including when some
\* connections were superseded by a later connection of the same principal.
C33_NoLeak ==
    (\A s \in Sockets : clients[s].status # "open") =>
        /\ \A u \in Users : userConnections[u] = None
        /\ \A s \in Sockets : socketToUser[s] = None
        /\ getConnectedUsers = {}
        /\ getConnectionCount = 0

\* every connection has been closed, two of them had been registered for
\* the same principal
C33_Witness ==
    /\ \A s \in Sockets : clients[s].status = "closed"
    /\ \E s1, s2 \in Sockets :
          /\ s1 # s2
          /\ clients[s1].userId # None
          /\ clients[s1].userId = clients[s2].userId

====
